---- MODULE Spec2Model ----
(***************************************************************************)
(* fast_log: an asynchronous log pipeline (src/src/fast_log.rs) and its    *)
(* rotating file appender (src/src/plugin/file_split.rs).                   *)
(*                                                                          *)
(* Part 1 models the pipeline: the process-wide sender LOG_SENDER, the      *)
(* producers' log()/flush()/exit(), init_custom_log, the Dispatcher thread, *)
(* one Appender Worker per appender, and the wait-group handles.            *)
(* Part 2 models FileSplitAppender::do_log, the bounded archive channel     *)
(* and the Archive Worker (spawn_do_zip / do_zip).                          *)
(***************************************************************************)
EXTENDS Integers, Sequences, FiniteSets, TLC

\* ------------------------------------------------------------------ bounds
MaxCalls == 4          \* calls of init_custom_log, log, flush and exit in a run

\* the pipelines of a run: the first init call's and a second one's
PipeIds == {1, 2}
Producers == {1, 2}
AppIds == {1, 2}
\* the appender lists an init call is given: a built-in appender (its
\* type_name starts with "fast_log::plugin") runs on a thread, any other on a
\* coroutine
AppenderLists == {<<>>, <<"plugin">>, <<"plugin", "custom">>}
LevelInfo == 3
\* log::Level as i32: Error = 1, Warn, Info, Debug, Trace = 5
Levels == 1..5

VARIABLES
  LOG_SENDER,   \* 0 = None, p = Some(sender of pipeline p's ingest channel)
  level,        \* LOGGER.level
  loggerSet,    \* log::set_logger has succeeded once
  npipes,       \* pipelines created so far
  ncalls,       \* API calls made so far
  ret,          \* what the most recent API call returned
  appenders,    \* per pipeline: the appender list it was given
  recvAlive,    \* per pipeline: main_recv has not been dropped
  ingest,       \* per pipeline: the ingest channel's contents
  ingestHist,   \* per pipeline: every message ever sent on the ingest channel
  dpc, didx, dmsg,   \* Dispatcher: position, loop index, message in fan-out
  chan,         \* per pipeline and appender: the appender channel's contents
  sent,         \* per pipeline and appender: every message ever sent to it
  wpc, wmsg,    \* Appender Worker: position, message inside do_log
  delivered,    \* per pipeline and appender: the do_log invocations so far
  wgHolders,    \* per pipeline: who holds a clone of the wait-group
  wgCaller,     \* the pipeline whose wait-group init returned to its caller
  joinState,    \* the caller's join: "none", "waiting", "returned"
  max_level,    \* log::max_level(), 0 = LevelFilter::Off
  orphaned      \* history, kept where a specification records it: per
                \* pipeline, what its ingest channel held when set_log
                \* replaced its sender in LOG_SENDER

pvars == <<LOG_SENDER, level, loggerSet, npipes, ncalls,
           ret, appenders, recvAlive, ingest, ingestHist, dpc, didx,
           dmsg, chan, sent, wpc, wmsg, delivered, wgHolders, wgCaller,
           joinState, max_level, orphaned>>

\* ---------------------------------------------------------------- messages
NoMsg == [command |-> "None", prod |-> 0, seq |-> 0, formated |-> <<>>]

\* FastLogRecord as built by log(), flush() and exit(): formated is empty
FastLogRecord(cmd, p, k) ==
  [command |-> cmd, prod |-> p, seq |-> k, formated |-> <<>>]

\* RecordFormat::do_format: a pure function of the record's fields
do_format(m) == <<m.command, m.prod, m.seq>>

IsExit_Never(m) == FALSE

IsExit_Always(m) == TRUE

\* msg.command.eq(&Command::CommandExit)
IsExit(m) == m.command = "Exit"

ChanSend_Lifo(q, m) == <<m>> \o q

\* Sender::send on an unbounded FIFO channel
ChanSend(q, m) == Append(q, m)

IngestSend_Lifo(q, m) == <<m>> \o q

\* LoggerSender::send: the unbounded ingest channel
IngestSend(q, m) == Append(q, m)

NumApp(p) == Len(appenders[p])

\* the holders of a wait-group clone
Caller == <<"caller", 0>>
Disp == <<"disp", 0>>
Worker(a) == <<"worker", a>>

\* -------------------------------------------------------------------- Init
PipeInit ==
  /\ LOG_SENDER = 0
  /\ level = 1
  /\ loggerSet = FALSE
  /\ npipes = 0
  /\ ncalls = 0
  /\ ret = [op |-> "none", arg |-> <<>>, res |-> "none"]
  /\ appenders = [p \in PipeIds |-> <<>>]
  /\ recvAlive = [p \in PipeIds |-> FALSE]
  /\ ingest = [p \in PipeIds |-> <<>>]
  /\ ingestHist = [p \in PipeIds |-> <<>>]
  /\ dpc = [p \in PipeIds |-> "none"]
  /\ didx = [p \in PipeIds |-> 0]
  /\ dmsg = [p \in PipeIds |-> NoMsg]
  /\ chan = [p \in PipeIds |-> [a \in AppIds |-> <<>>]]
  /\ sent = [p \in PipeIds |-> [a \in AppIds |-> <<>>]]
  /\ wpc = [p \in PipeIds |-> [a \in AppIds |-> "none"]]
  /\ wmsg = [p \in PipeIds |-> [a \in AppIds |-> NoMsg]]
  /\ delivered = [p \in PipeIds |-> [a \in AppIds |-> <<>>]]
  /\ wgHolders = [p \in PipeIds |-> {}]
  /\ wgCaller = 0
  /\ joinState = "none"
  /\ max_level = 0
  /\ orphaned = [p \in PipeIds |-> <<>>]

\* ------------------------------------------------------- init_custom_log
IsEmptyList_Never(apps) == FALSE

\* appenders.is_empty()
IsEmptyList(apps) == Len(apps) = 0

\* if appenders.is_empty() { return Err(..) }: nothing else has run
InitEmpty(apps) ==
  /\ IsEmptyList(apps)
  /\ ncalls < MaxCalls
  /\ ncalls' = ncalls + 1
  /\ ret' = [op |-> "init", arg |-> apps, res |-> "Err(empty)"]
  /\ UNCHANGED <<LOG_SENDER, level, loggerSet, npipes, appenders,
                 recvAlive, ingest, ingestHist, dpc, didx, dmsg, chan, sent,
                 wpc, wmsg, delivered, wgHolders, wgCaller, joinState>>
  /\ UNCHANGED <<max_level, orphaned>>

\* the call past the empty check: FastLogWaitGroup::new, set_log (level and
\* sender replaced), the Dispatcher thread spawned with wait_group_back, then
\* log::set_logger, whose success sets log::max_level and whose failure
\* returns Err and drops the caller's handle
InitPipeline(apps, lvl) ==
  /\ ~IsEmptyList(apps)
  /\ npipes < Cardinality(PipeIds)
  /\ ncalls < MaxCalls
  /\ ncalls' = ncalls + 1
  /\ LET p == npipes + 1 IN
     /\ npipes' = p
     /\ level' = lvl
     /\ LOG_SENDER' = p
     /\ recvAlive' = [recvAlive EXCEPT ![p] = TRUE]
     /\ appenders' = [appenders EXCEPT ![p] = apps]
     /\ dpc' = [dpc EXCEPT ![p] = "spawn"]
     /\ didx' = [didx EXCEPT ![p] = 1]
     /\ IF ~loggerSet
        THEN /\ loggerSet' = TRUE
             /\ wgHolders' = [wgHolders EXCEPT ![p] = {Caller, Disp}]
             /\ wgCaller' = p
             /\ max_level' = lvl
             /\ ret' = [op |-> "init", arg |-> apps, res |-> "Ok"]
        ELSE /\ wgHolders' = [wgHolders EXCEPT ![p] = {Disp}]
             /\ ret' = [op |-> "init", arg |-> apps,
                          res |-> "Err(set_logger)"]
             /\ UNCHANGED <<loggerSet, wgCaller, max_level>>
  /\ UNCHANGED <<ingest, ingestHist, dmsg, chan, sent, wpc, wmsg,
                 delivered, joinState>>

init_custom_log(apps, lvl) == InitEmpty(apps) \/ InitPipeline(apps, lvl)

\* ------------------------------------------------------------- producers
\* Logger::log of a record of severity sev: nothing without a sender or when
\* the filter rejects; the severity is copied to the record and compared with
\* nothing; the result of send is ignored
log(prod, sev, rejected) ==
  /\ ncalls < MaxCalls
  /\ ncalls' = ncalls + 1
  /\ ret' = [op |-> "log", arg |-> <<sev, rejected>>, res |-> "()"]
  /\ IF LOG_SENDER # 0 /\ ~rejected /\ recvAlive[LOG_SENDER]
     THEN LET m == FastLogRecord("Record", prod, ncalls + 1) IN
          /\ ingest' = [ingest EXCEPT ![LOG_SENDER] = IngestSend(@, m)]
          /\ ingestHist' = [ingestHist EXCEPT ![LOG_SENDER] = Append(@, m)]
     ELSE UNCHANGED <<ingest, ingestHist>>
  /\ UNCHANGED <<LOG_SENDER, level, loggerSet, npipes, appenders, recvAlive,
                 dpc, didx, dmsg, chan, sent, wpc, wmsg, delivered,
                 wgHolders, wgCaller, joinState>>
  /\ UNCHANGED <<max_level, orphaned>>

\* Logger::set_level: self.level.swap(level as i32, ..)
set_level(lvl) ==
  /\ ncalls < MaxCalls
  /\ ncalls' = ncalls + 1
  /\ ret' = [op |-> "set_level", arg |-> <<lvl>>, res |-> "()"]
  /\ level' = lvl
  /\ UNCHANGED <<LOG_SENDER, loggerSet, npipes, appenders, recvAlive, ingest,
                 ingestHist, dpc, didx, dmsg, chan, sent, wpc, wmsg, delivered,
                 wgHolders, wgCaller, joinState, max_level, orphaned>>

\* a call through the log crate's macros (log::info! ..): the macro compares
\* the severity with log::max_level(), which the successful init has set,
\* and only then calls Logger::log
LogMacro(prod, sev, rejected) ==
  IF sev <= max_level
  THEN log(prod, sev, rejected)
  ELSE /\ ncalls < MaxCalls
       /\ ncalls' = ncalls + 1
       /\ ret' = [op |-> "log", arg |-> <<sev, rejected>>, res |-> "()"]
       /\ UNCHANGED <<LOG_SENDER, level, loggerSet, npipes, appenders,
                      recvAlive, ingest, ingestHist, dpc, didx, dmsg, chan,
                      sent, wpc, wmsg, delivered, wgHolders, wgCaller,
                      joinState, max_level, orphaned>>

ControlResult_IgnoreSend(cmd) ==
  IF LOG_SENDER # 0 THEN "Ok" ELSE "Err"

\* exit() and flush(): Ok(()) when a sender is installed and its send
\* succeeded (the receiver is alive), the error otherwise
ControlResult(cmd) ==
  IF LOG_SENDER # 0 /\ recvAlive[LOG_SENDER] THEN "Ok" ELSE "Err"

\* the send of exit() and flush()
SendControl(cmd) ==
  /\ ret' = [op |-> cmd, arg |-> <<>>, res |-> ControlResult(cmd)]
  /\ IF LOG_SENDER # 0 /\ recvAlive[LOG_SENDER]
     THEN LET m == FastLogRecord(cmd, 0, 0) IN
          /\ ingest' = [ingest EXCEPT ![LOG_SENDER] = IngestSend(@, m)]
          /\ ingestHist' = [ingestHist EXCEPT ![LOG_SENDER] = Append(@, m)]
     ELSE UNCHANGED <<ingest, ingestHist>>

exit ==
  /\ ncalls < MaxCalls
  /\ ncalls' = ncalls + 1
  /\ SendControl("Exit")
  /\ UNCHANGED <<LOG_SENDER, level, loggerSet, npipes, appenders,
                 recvAlive, dpc, didx, dmsg, chan, sent, wpc, wmsg,
                 delivered, wgHolders, wgCaller, joinState>>
  /\ UNCHANGED <<max_level, orphaned>>

flush ==
  /\ ncalls < MaxCalls
  /\ ncalls' = ncalls + 1
  /\ SendControl("Flush")
  /\ UNCHANGED <<LOG_SENDER, level, loggerSet, npipes, appenders,
                 recvAlive, dpc, didx, dmsg, chan, sent, wpc, wmsg,
                 delivered, wgHolders, wgCaller, joinState>>
  /\ UNCHANGED <<max_level, orphaned>>

\* ------------------------------------------------------------ wait-group
\* FastLogWaitGroup::wait on the handle init returned: the caller gives up
\* its own handle and suspends
Wait ==
  /\ wgCaller # 0
  /\ joinState = "none"
  /\ joinState' = "waiting"
  /\ wgHolders' = [wgHolders EXCEPT ![wgCaller] = @ \ {Caller}]
  /\ UNCHANGED <<LOG_SENDER, level, loggerSet, npipes, ncalls, ret,
                 appenders, recvAlive, ingest, ingestHist, dpc, didx, dmsg,
                 chan, sent, wpc, wmsg, delivered, wgCaller>>
  /\ UNCHANGED <<max_level, orphaned>>

\* wait returns once every clone has been dropped
WaitReturn ==
  /\ joinState = "waiting"
  /\ wgHolders[wgCaller] = {}
  /\ joinState' = "returned"
  /\ UNCHANGED <<LOG_SENDER, level, loggerSet, npipes, ncalls, ret,
                 appenders, recvAlive, ingest, ingestHist, dpc, didx, dmsg,
                 chan, sent, wpc, wmsg, delivered, wgHolders, wgCaller>>
  /\ UNCHANGED <<max_level, orphaned>>

\* ------------------------------------------------------------- Dispatcher
DispRecv_NoFormat(p) ==
  /\ dpc[p] = "recv"
  /\ ingest[p] # <<>>
  /\ dmsg' = [dmsg EXCEPT ![p] = Head(ingest[p])]
  /\ ingest' = [ingest EXCEPT ![p] = Tail(@)]
  /\ dpc' = [dpc EXCEPT ![p] = "fanout"]
  /\ didx' = [didx EXCEPT ![p] = 1]
  /\ UNCHANGED <<LOG_SENDER, level, loggerSet, npipes, ncalls, ret,
                 appenders, recvAlive, ingestHist, chan, sent, wpc, wmsg,
                 delivered, wgHolders, wgCaller, joinState, max_level,
                 orphaned>>

DispRecv_Abandon(p) ==
  /\ LOG_SENDER = p
  /\ dpc[p] = "recv"
  /\ ingest[p] # <<>>
  /\ dmsg' = [dmsg EXCEPT ![p] =
                [Head(ingest[p]) EXCEPT !.formated = do_format(Head(ingest[p]))]]
  /\ ingest' = [ingest EXCEPT ![p] = Tail(@)]
  /\ dpc' = [dpc EXCEPT ![p] = "fanout"]
  /\ didx' = [didx EXCEPT ![p] = 1]
  /\ UNCHANGED <<LOG_SENDER, level, loggerSet, npipes, ncalls, ret,
                 appenders, recvAlive, ingestHist, chan, sent, wpc, wmsg,
                 delivered, wgHolders, wgCaller, joinState, max_level,
                 orphaned>>

CloneForWorker_Missing(holders, a) == holders

\* let current_wait_group = wait_group_back.clone()
CloneForWorker(holders, a) == holders \cup {Worker(a)}

\* for (recever, appender) in recever_vec: clone the wait-group, spawn the
\* appender's worker (thread or coroutine); after the last one enter the loop
DispSpawn(p) ==
  /\ dpc[p] = "spawn"
  /\ IF didx[p] <= NumApp(p)
     THEN /\ wgHolders' = [wgHolders EXCEPT ![p] = CloneForWorker(@, didx[p])]
          /\ wpc' = [wpc EXCEPT ![p][didx[p]] = "recv"]
          /\ didx' = [didx EXCEPT ![p] = @ + 1]
          /\ UNCHANGED dpc
     ELSE /\ dpc' = [dpc EXCEPT ![p] = "recv"]
          /\ didx' = [didx EXCEPT ![p] = 0]
          /\ UNCHANGED <<wgHolders, wpc>>
  /\ UNCHANGED <<LOG_SENDER, level, loggerSet, npipes, ncalls, ret,
                 appenders, recvAlive, ingest, ingestHist, dmsg, chan, sent,
                 wmsg, delivered, wgCaller, joinState>>
  /\ UNCHANGED <<max_level, orphaned>>

\* let data = main_recv.recv(); data.formated = format.do_format(&mut data)
DispRecv(p) ==
  /\ dpc[p] = "recv"
  /\ ingest[p] # <<>>
  /\ dmsg' = [dmsg EXCEPT ![p] =
                [Head(ingest[p]) EXCEPT !.formated = do_format(Head(ingest[p]))]]
  /\ ingest' = [ingest EXCEPT ![p] = Tail(@)]
  /\ dpc' = [dpc EXCEPT ![p] = "fanout"]
  /\ didx' = [didx EXCEPT ![p] = 1]
  /\ UNCHANGED <<LOG_SENDER, level, loggerSet, npipes, ncalls, ret,
                 appenders, recvAlive, ingestHist, chan, sent, wpc, wmsg,
                 delivered, wgHolders, wgCaller, joinState>>
  /\ UNCHANGED <<max_level, orphaned>>

\* for x in &sender_vec { x.send(data.clone()) }, one send per step; after
\* the last send: on Exit drop(wait_group_back) and break, else loop
DispSend(p) ==
  /\ dpc[p] = "fanout"
  /\ IF didx[p] <= NumApp(p)
     THEN /\ chan' = [chan EXCEPT ![p][didx[p]] = ChanSend(@, dmsg[p])]
          /\ sent' = [sent EXCEPT ![p][didx[p]] = Append(@, dmsg[p])]
          /\ didx' = [didx EXCEPT ![p] = @ + 1]
          /\ UNCHANGED <<dpc, dmsg, wgHolders>>
     ELSE /\ IF IsExit(dmsg[p])
             THEN /\ wgHolders' = [wgHolders EXCEPT ![p] = @ \ {Disp}]
                  /\ dpc' = [dpc EXCEPT ![p] = "break"]
             ELSE /\ dpc' = [dpc EXCEPT ![p] = "recv"]
                  /\ UNCHANGED wgHolders
          /\ dmsg' = [dmsg EXCEPT ![p] = NoMsg]
          /\ didx' = [didx EXCEPT ![p] = 0]
          /\ UNCHANGED <<chan, sent>>
  /\ UNCHANGED <<LOG_SENDER, level, loggerSet, npipes, ncalls, ret,
                 appenders, recvAlive, ingest, ingestHist, wpc, wmsg,
                 delivered, wgCaller, joinState>>
  /\ UNCHANGED <<max_level, orphaned>>

\* the thread's closure ends after the break: main_recv and sender_vec drop
DispEnd(p) ==
  /\ dpc[p] = "break"
  /\ dpc' = [dpc EXCEPT ![p] = "done"]
  /\ recvAlive' = [recvAlive EXCEPT ![p] = FALSE]
  /\ UNCHANGED <<LOG_SENDER, level, loggerSet, npipes, ncalls, ret,
                 appenders, ingest, ingestHist, didx, dmsg, chan, sent, wpc,
                 wmsg, delivered, wgHolders, wgCaller, joinState>>
  /\ UNCHANGED <<max_level, orphaned>>

\* -------------------------------------------------------- Appender Worker
\* if let Ok(msg) = recever.recv(): on Exit drop(current_wait_group) and
\* break, else call appender.do_log(msg)
WorkerRecv(p, a) ==
  /\ wpc[p][a] = "recv"
  /\ chan[p][a] # <<>>
  /\ LET m == Head(chan[p][a]) IN
     /\ chan' = [chan EXCEPT ![p][a] = Tail(@)]
     /\ IF IsExit(m)
        THEN /\ wgHolders' = [wgHolders EXCEPT ![p] = @ \ {Worker(a)}]
             /\ wpc' = [wpc EXCEPT ![p][a] = "done"]
             /\ UNCHANGED <<wmsg, delivered>>
        ELSE /\ wpc' = [wpc EXCEPT ![p][a] = "do_log"]
             /\ wmsg' = [wmsg EXCEPT ![p][a] = m]
             /\ delivered' = [delivered EXCEPT ![p][a] = Append(@, m)]
             /\ UNCHANGED wgHolders
  /\ UNCHANGED <<LOG_SENDER, level, loggerSet, npipes, ncalls, ret,
                 appenders, recvAlive, ingest, ingestHist, dpc, didx, dmsg,
                 sent, wgCaller, joinState>>
  /\ UNCHANGED <<max_level, orphaned>>

\* appender.do_log(msg.as_ref()) returns
WorkerDoLogReturn(p, a) ==
  /\ wpc[p][a] = "do_log"
  /\ wpc' = [wpc EXCEPT ![p][a] = "recv"]
  /\ wmsg' = [wmsg EXCEPT ![p][a] = NoMsg]
  /\ UNCHANGED <<LOG_SENDER, level, loggerSet, npipes, ncalls, ret,
                 appenders, recvAlive, ingest, ingestHist, dpc, didx, dmsg,
                 chan, sent, delivered, wgHolders, wgCaller, joinState>>
  /\ UNCHANGED <<max_level, orphaned>>

\* ====================================================================
\* Part 2: FileSplitAppender, the archive channel and the Archive Worker
\* ====================================================================
MaxThreshold == 2      \* max_split_bytes is drawn from 0..MaxThreshold
MaxRecLen == 2         \* a record's formatted text has 0..MaxRecLen bytes
MaxInitLen == 1        \* bytes the temp file holds at construction
MaxLogs == 3           \* do_log calls in a run
MaxClock == 2          \* readings of the clock in a run
BurstLogs == 3         \* do_log calls beyond a full archive channel in a burst
ArchiveCap == 100      \* crossbeam_channel::bounded(100)

Times == 0..MaxClock
\* a record's formatted text: n bytes that tell the record from every other
\* one of the run (k numbers the call)
Record(n, k) == [i \in 1..n |-> k]
\* the bytes a temp file left by an earlier run holds
InitialFiles == {[i \in 1..n |-> 255] : n \in 0..MaxInitLen}

\* Option<T>
None == <<>>
Some(v) == <<v>>
Unwrap(o) == o[1]

VARIABLES
  max_split_bytes, zip_compress,   \* FileSplitAppenderData's configuration
  file,          \* the bytes of the active temp file
  cursor,        \* the file handle's write position
  temp_bytes,    \* the recorded size of the active buffer
  temp_data,     \* the mirror: Option<Vec<u8>>
  rotated,       \* per clock reading: the rotated log file of that name
  zipChan,       \* the archive channel's pending ZipPacks
  apc,           \* do_log: "idle", or "send" while blocked in sender.send
  pending,       \* while blocked: the pack, the record and its write result
  zpc, zpack,    \* Archive Worker: "recv" or "zip", and the pack it holds
  archives,      \* per clock reading: the archive file of that name
  now,           \* the clock
  logsLeft,      \* do_log calls the run still makes
  file0,         \* the temp file's bytes at construction
  logged,        \* the bytes of every record passed to do_log, in order
  zipped         \* the non-empty buffers do_zip has archived, in order

svars == <<max_split_bytes, zip_compress, file, cursor, temp_bytes, temp_data,
           rotated, zipChan, apc, pending, zpc, zpack, archives, now,
           logsLeft, file0, logged, zipped>>

NoPending == [pack |-> <<>>, rec |-> <<>>, wres |-> 0]

\* FileSplitAppender::new: the temp file is opened, temp_bytes is its length,
\* the mirror is loaded with its bytes, the cursor is put at its end; the
\* archive channel is created and the Archive Worker spawned
New(f0, max, zip, budget) ==
  /\ max_split_bytes = max
  /\ zip_compress = zip
  /\ file = f0
  /\ temp_bytes = Len(f0)
  /\ temp_data = Some(f0)
  /\ cursor = Len(f0)
  /\ rotated = [t \in Times |-> None]
  /\ zipChan = <<>>
  /\ apc = "idle"
  /\ pending = NoPending
  /\ zpc = "recv"
  /\ zpack = <<>>
  /\ archives = [t \in Times |-> None]
  /\ now = 0
  /\ logsLeft = budget
  /\ file0 = f0
  /\ logged = <<>>
  /\ zipped = <<>>

NeedsRotation_Gt(size, max) == size > max

\* if data.temp_bytes >= data.max_split_bytes
NeedsRotation(size, max) == size >= max

ChanFull_Never(q) == FALSE

\* the bounded channel has no free slot: send blocks
ChanFull(q) == Len(q) >= ArchiveCap

SetLen0_Missing(f) == f

\* data.file.set_len(0)
SetLen0(f) == <<>>

Seek0_Missing(pos) == pos

\* data.file.seek(SeekFrom::Start(0))
Seek0(pos) == 0

\* File::write at the cursor: bytes past the end of file are zero-filled,
\* bytes under the written range are overwritten
WriteAt(f, pos, bytes) ==
  LET n == IF pos + Len(bytes) > Len(f) THEN pos + Len(bytes) ELSE Len(f) IN
  [i \in 1..n |-> IF i > pos /\ i <= pos + Len(bytes) THEN bytes[i - pos]
                  ELSE IF i <= Len(f) THEN f[i] ELSE 0]

AppendFile_Truncate(old, buf) == Some(buf)

\* OpenOptions::new().create(true).append(true).open(log_name), write_all
AppendFile(old, buf) ==
  IF old = None THEN Some(buf) ELSE Some(Unwrap(old) \o buf)

\* let write_bytes = data.file.write(..); on Ok(size) every byte of the
\* record is pushed to the mirror and temp_bytes grows by size
\* (wres: the size write returned, or -1 for Err); f, pos, size and mirror are
\* the values the rotation step, if any, has left
WriteRecord(rec, wres, f, pos, size, mirror) ==
  /\ file' = IF wres >= 0 THEN WriteAt(f, pos, SubSeq(rec, 1, wres)) ELSE f
  /\ cursor' = IF wres >= 0 THEN pos + wres ELSE pos
  /\ temp_data' = IF wres >= 0 THEN Some(mirror \o rec) ELSE Some(mirror)
  /\ temp_bytes' = IF wres >= 0 THEN size + wres ELSE size

\* //reset data: set_len(0), seek to 0, temp_bytes = 0, an empty mirror; the
\* pending record is written next
ResetData ==
  /\ file' = SetLen0(file)
  /\ cursor' = Seek0(cursor)
  /\ temp_bytes' = 0
  /\ temp_data' = Some(<<>>)
  /\ apc' = "write"

\* FileSplitAppender::do_log from its call: without a rotation the record is
\* written and the call returns; a rotation hands the mirror over (to the
\* archive channel, or to a rotated file named by the clock) and resets, or
\* blocks in the send on a full archive channel
DoLog(rec, wres, openOk) ==
  /\ apc = "idle"
  /\ logsLeft > 0
  /\ logsLeft' = logsLeft - 1
  /\ logged' = logged \o rec
  /\ IF NeedsRotation(temp_bytes, max_split_bytes)
     THEN /\ pending' = [pack |-> Unwrap(temp_data), rec |-> rec, wres |-> wres]
          /\ IF zip_compress
             THEN IF ChanFull(zipChan)
                  THEN /\ apc' = "send"
                       /\ temp_data' = None
                       /\ UNCHANGED <<file, cursor, temp_bytes, zipChan, rotated>>
                  ELSE /\ zipChan' = Append(zipChan, Unwrap(temp_data))
                       /\ ResetData
                       /\ UNCHANGED rotated
             ELSE /\ rotated' = IF openOk
                                THEN [rotated EXCEPT ![now] =
                                        AppendFile(@, Unwrap(temp_data))]
                                ELSE rotated
                  /\ ResetData
                  /\ UNCHANGED zipChan
     ELSE /\ WriteRecord(rec, wres, file, cursor, temp_bytes, Unwrap(temp_data))
          /\ UNCHANGED <<apc, pending, zipChan, rotated>>
  /\ UNCHANGED <<max_split_bytes, zip_compress, zpc, zpack, archives, now,
                 file0, zipped>>

\* the blocked sender.send completes once the channel has a free slot; do_log
\* goes on with the reset
DoLogResume ==
  /\ apc = "send"
  /\ ~ChanFull(zipChan)
  /\ zipChan' = Append(zipChan, pending.pack)
  /\ ResetData
  /\ UNCHANGED <<max_split_bytes, zip_compress, rotated, pending, zpc, zpack,
                 archives, now, logsLeft, file0, logged, zipped>>

\* after the rotation: data.file.write(log_data.as_bytes()), and do_log returns
DoLogWrite ==
  /\ apc = "write"
  /\ WriteRecord(pending.rec, pending.wres, file, cursor, temp_bytes,
                 Unwrap(temp_data))
  /\ apc' = "idle"
  /\ pending' = NoPending
  /\ UNCHANGED <<max_split_bytes, zip_compress, rotated, zipChan, zpc, zpack,
                 archives, now, logsLeft, file0, logged, zipped>>

\* spawn_do_zip: match r.recv() { Ok(pack) => ..
ZipRecv ==
  /\ zpc = "recv"
  /\ zipChan # <<>>
  /\ zpack' = Head(zipChan)
  /\ zipChan' = Tail(zipChan)
  /\ zpc' = "zip"
  /\ UNCHANGED <<max_split_bytes, zip_compress, file, cursor, temp_bytes,
                 temp_data, rotated, apc, pending, archives, now, logsLeft,
                 file0, logged, zipped>>

\* do_zip: nothing for an empty buffer; otherwise File::create of the archive
\* named by the clock's reading (an existing file of that name is truncated)
\* and one entry holding the buffer
do_zip(createOk) ==
  /\ zpc = "zip"
  /\ zpc' = "recv"
  /\ zpack' = <<>>
  /\ IF zpack = <<>>
     THEN UNCHANGED <<archives, zipped>>
     ELSE /\ zipped' = Append(zipped, zpack)
          /\ archives' = IF createOk THEN [archives EXCEPT ![now] = Some(zpack)]
                         ELSE archives
  /\ UNCHANGED <<max_split_bytes, zip_compress, file, cursor, temp_bytes,
                 temp_data, rotated, zipChan, apc, pending, now, logsLeft,
                 file0, logged>>

\* Local::now() advances
Tick ==
  /\ now < MaxClock
  /\ now' = now + 1
  /\ UNCHANGED <<max_split_bytes, zip_compress, file, cursor, temp_bytes,
                 temp_data, rotated, zipChan, apc, pending, zpc, zpack,
                 archives, logsLeft, file0, logged, zipped>>

\* ====================================================================
\* Specifications
\* ====================================================================
vars == <<pvars, svars>>

\* no File-Split Appender is under study in the pipeline's specification
SplitIdle == New(<<>>, 0, FALSE, 0)

Init == PipeInit /\ SplitIdle

Next ==
  \/ \E apps \in AppenderLists :
       init_custom_log(apps, LevelInfo) /\ UNCHANGED <<orphaned, svars>>
  \/ \E prod \in Producers, rejected \in BOOLEAN :
       log(prod, LevelInfo, rejected) /\ UNCHANGED svars
  \/ exit /\ UNCHANGED svars
  \/ flush /\ UNCHANGED svars
  \/ Wait /\ UNCHANGED svars
  \/ WaitReturn /\ UNCHANGED svars
  \/ \E p \in PipeIds : DispSpawn(p) /\ UNCHANGED svars
  \/ \E p \in PipeIds : DispRecv(p) /\ UNCHANGED svars
  \/ \E p \in PipeIds : DispSend(p) /\ UNCHANGED svars
  \/ \E p \in PipeIds : DispEnd(p) /\ UNCHANGED svars
  \/ \E p \in PipeIds, a \in AppIds : WorkerRecv(p, a) /\ UNCHANGED svars
  \/ \E p \in PipeIds, a \in AppIds :
       WorkerDoLogReturn(p, a) /\ UNCHANGED svars

Spec == Init /\ [][Next]_vars

\* a File-Split Appender on a file system whose operations succeed in full:
\* every write returns Ok(len), every open and create succeeds
SplitInit ==
  /\ PipeInit
  /\ \E f0 \in InitialFiles, max \in 0..MaxThreshold, zip \in BOOLEAN :
       New(f0, max, zip, MaxLogs)

SplitNext ==
  \/ \E n \in 0..MaxRecLen :
       DoLog(Record(n, logsLeft), n, TRUE) /\ UNCHANGED pvars
  \/ DoLogWrite /\ UNCHANGED pvars
  \/ ZipRecv /\ UNCHANGED pvars
  \/ do_zip(TRUE) /\ UNCHANGED pvars
  \/ Tick /\ UNCHANGED pvars

SplitSpec == SplitInit /\ [][SplitNext]_vars

\* a burst of rotations in compression mode against an Archive Worker of any
\* speed: one-byte records, a threshold of at most one byte
BurstInit ==
  /\ PipeInit
  /\ \E max \in 0..1 : New(<<>>, max, TRUE, ArchiveCap + BurstLogs)

BurstNext ==
  \/ DoLog(Record(1, logsLeft), 1, TRUE) /\ UNCHANGED pvars
  \/ DoLogResume /\ UNCHANGED pvars
  \/ DoLogWrite /\ UNCHANGED pvars
  \/ ZipRecv /\ UNCHANGED pvars
  \/ do_zip(TRUE) /\ UNCHANGED pvars

BurstSpec == BurstInit /\ [][BurstNext]_vars

\* the Dispatcher, every Appender Worker and a suspended join are scheduled
\* again and again; the producers may stop calling at any time
PipeFairness ==
  /\ WF_vars(WaitReturn /\ UNCHANGED svars)
  /\ \A p \in PipeIds :
       /\ WF_vars(DispSpawn(p) /\ UNCHANGED svars)
       /\ WF_vars(DispRecv(p) /\ UNCHANGED svars)
       /\ WF_vars(DispSend(p) /\ UNCHANGED svars)
       /\ WF_vars(DispEnd(p) /\ UNCHANGED svars)
       /\ \A a \in AppIds :
            /\ WF_vars(WorkerRecv(p, a) /\ UNCHANGED svars)
            /\ WF_vars(WorkerDoLogReturn(p, a) /\ UNCHANGED svars)

FairSpec == Init /\ [][Next]_vars /\ PipeFairness

\* ---------------------------------------------- a File-Split Appender
\* in a pipeline: the only appender of the first init call is the
\* FileSplitAppender of Part 2, constructed before the call
\* let log_data = record.formated.as_str() .. log_data.as_bytes(): a Record's
\* text is one byte that tells it from every other record of the run, the
\* text of a Flush is empty
FormatedBytes(m) == IF m.command = "Record" THEN Record(1, m.seq) ELSE <<>>

\* appender.do_log(msg.as_ref()) on the FileSplitAppender, on a file system
\* whose operations succeed in full: without a rotation the record is written
\* and the call returns to the worker's loop
FileDoLog ==
  /\ wpc[1][1] = "do_log"
  /\ DoLog(FormatedBytes(wmsg[1][1]), Len(FormatedBytes(wmsg[1][1])), TRUE)
  /\ IF apc' = "idle" THEN WorkerDoLogReturn(1, 1) ELSE UNCHANGED pvars

\* after a rotation: the write of the record, and the call returns
FileDoLogWrite ==
  /\ DoLogWrite
  /\ WorkerDoLogReturn(1, 1)

\* the appender has a positive threshold
FileInit ==
  /\ PipeInit
  /\ \E f0 \in InitialFiles, max \in 1..MaxThreshold, zip \in BOOLEAN :
       New(f0, max, zip, MaxCalls)

FileNext ==
  \/ /\ npipes = 0
     /\ InitPipeline(<<"plugin">>, LevelInfo)
     /\ UNCHANGED <<orphaned, svars>>
  \/ log(1, LevelInfo, FALSE) /\ UNCHANGED svars
  \/ exit /\ UNCHANGED svars
  \/ flush /\ UNCHANGED svars
  \/ Wait /\ UNCHANGED svars
  \/ WaitReturn /\ UNCHANGED svars
  \/ DispSpawn(1) /\ UNCHANGED svars
  \/ DispRecv(1) /\ UNCHANGED svars
  \/ DispSend(1) /\ UNCHANGED svars
  \/ DispEnd(1) /\ UNCHANGED svars
  \/ WorkerRecv(1, 1) /\ UNCHANGED svars
  \/ FileDoLog
  \/ FileDoLogWrite
  \/ ZipRecv /\ UNCHANGED pvars
  \/ do_zip(TRUE) /\ UNCHANGED pvars

FileSpec == FileInit /\ [][FileNext]_vars

\* ------------------------------------------------------ the severity gate
\* init calls of any level, set_level calls and log calls of any severity
\* made through the log crate's macros, against running pipelines
GateNext ==
  \/ \E lvl \in Levels :
       InitPipeline(<<"plugin">>, lvl) /\ UNCHANGED <<orphaned, svars>>
  \/ \E lvl \in Levels : set_level(lvl) /\ UNCHANGED svars
  \/ \E sev \in Levels, rejected \in BOOLEAN :
       LogMacro(1, sev, rejected) /\ UNCHANGED svars
  \/ \E p \in PipeIds : DispSpawn(p) /\ UNCHANGED svars
  \/ \E p \in PipeIds : DispRecv(p) /\ UNCHANGED svars
  \/ \E p \in PipeIds : DispSend(p) /\ UNCHANGED svars
  \/ \E p \in PipeIds : WorkerRecv(p, 1) /\ UNCHANGED svars
  \/ \E p \in PipeIds : WorkerDoLogReturn(p, 1) /\ UNCHANGED svars

GateSpec == Init /\ [][GateNext]_vars

\* a File-Split Appender on a file system whose operations may fail: a write
\* returns Err or Ok(size) with any size up to the record's length, the open
\* of a rotated file and the create of an archive succeed or fail; the run
\* is short enough for the clock to show one reading
IoNext ==
  \/ \E n \in 0..MaxRecLen, wres \in -1..MaxRecLen, openOk \in BOOLEAN :
       wres <= n /\ DoLog(Record(n, logsLeft), wres, openOk) /\ UNCHANGED pvars
  \/ DoLogWrite /\ UNCHANGED pvars
  \/ ZipRecv /\ UNCHANGED pvars
  \/ \E createOk \in BOOLEAN : do_zip(createOk) /\ UNCHANGED pvars

IoSpec == SplitInit /\ [][IoNext]_vars

\* ------------------------------------------------------ re-initialization
\* set_log replaces the sender: the history of what the replaced pipeline's
\* ingest channel holds at that moment
RecordOrphaned ==
  orphaned' = IF LOG_SENDER # 0
              THEN [orphaned EXCEPT ![LOG_SENDER] = ingest[LOG_SENDER]]
              ELSE orphaned

\* two init calls with non-empty appender lists, a producer, flush and exit,
\* under the fair scheduling of the pipelines' tasks; no join is made
ReinitNext ==
  \/ \E apps \in AppenderLists \ {<<>>} :
       InitPipeline(apps, LevelInfo) /\ RecordOrphaned /\ UNCHANGED svars
  \/ log(1, LevelInfo, FALSE) /\ UNCHANGED svars
  \/ exit /\ UNCHANGED svars
  \/ flush /\ UNCHANGED svars
  \/ \E p \in PipeIds : DispSpawn(p) /\ UNCHANGED svars
  \/ \E p \in PipeIds : DispRecv(p) /\ UNCHANGED svars
  \/ \E p \in PipeIds : DispSend(p) /\ UNCHANGED svars
  \/ \E p \in PipeIds : DispEnd(p) /\ UNCHANGED svars
  \/ \E p \in PipeIds, a \in AppIds : WorkerRecv(p, a) /\ UNCHANGED svars
  \/ \E p \in PipeIds, a \in AppIds :
       WorkerDoLogReturn(p, a) /\ UNCHANGED svars

ReinitSpec == Init /\ [][ReinitNext]_vars /\ PipeFairness

\* ------------------------------------------------------- claim helpers
Front(q) == SubSeq(q, 1, Len(q) - 1)
Last(q) == q[Len(q)]
IsPrefix(s, t) == Len(s) <= Len(t) /\ SubSeq(t, 1, Len(s)) = s
\* a message's identity, whatever its formatted text
Ids(q) == [i \in 1..Len(q) |-> <<q[i].command, q[i].prod, q[i].seq>>]
ByProducer(q, prod) == SelectSeq(q, LAMBDA m : m.command = "Record" /\ m.prod = prod)
HasExit(q) == \E i \in 1..Len(q) : q[i].command = "Exit"
FirstExit(q) == CHOOSE i \in 1..Len(q) :
                  q[i].command = "Exit" /\ \A j \in 1..(i - 1) : q[j].command # "Exit"
IsCall(op) == ncalls' # ncalls /\ ret'.op = op

\* C1: once an Exit has been submitted to the pipeline whose wait-group the
\* caller joins, the join eventually returns (under fair scheduling of the
\* Dispatcher and the Appender Workers)
C1_ShutdownLiveness ==
  (wgCaller # 0 /\ joinState = "waiting" /\ HasExit(ingestHist[wgCaller]))
     ~> (joinState = "returned")

C1_Witness ==
  /\ joinState = "returned"
  /\ NumApp(wgCaller) = 2
  /\ Len(delivered[wgCaller][2]) >= 2

\* C2: when join has returned no handle is held, the Dispatcher has sent Exit
\* to every appender channel and left its loop, and every Appender Worker has
\* stopped on Exit after do_log of every message sent to it before the Exit
C2_JoinSafety ==
  joinState = "returned" =>
    /\ wgHolders[wgCaller] = {}
    /\ dpc[wgCaller] \in {"break", "done"}
    /\ \A a \in 1..NumApp(wgCaller) :
         /\ wpc[wgCaller][a] = "done"
         /\ chan[wgCaller][a] = <<>>
         /\ sent[wgCaller][a] # <<>>
         /\ IsExit(Last(sent[wgCaller][a]))
         /\ delivered[wgCaller][a] = Front(sent[wgCaller][a])

C2_Witness ==
  /\ joinState = "returned"
  /\ NumApp(wgCaller) = 2
  /\ delivered[wgCaller][1] # <<>>
  /\ delivered[wgCaller][2] # <<>>

\* C3: at every appender the do_log invocations for one producer's records
\* are, in order, a prefix of the records that producer submitted
C3_PerProducerOrder ==
  \A p \in PipeIds, a \in AppIds, prod \in Producers :
    IsPrefix(Ids(ByProducer(delivered[p][a], prod)),
             Ids(ByProducer(ingestHist[p], prod)))

C3_Witness ==
  \E p \in PipeIds, prod \in Producers :
    /\ NumApp(p) = 2
    /\ Len(ByProducer(delivered[p][2], prod)) = 2
    /\ Len(delivered[p][2]) = 3
    /\ delivered[p][2][2].prod # prod

\* C4: a worker that has observed Exit has had do_log invoked for every
\* Record submitted before the first Exit
C4_RecordBeforeExit ==
  \A p \in PipeIds, a \in AppIds :
    wpc[p][a] = "done" =>
      \A i \in 1..(FirstExit(ingestHist[p]) - 1) :
        ingestHist[p][i].command = "Record" =>
          \E j \in 1..Len(delivered[p][a]) :
            Ids(delivered[p][a])[j] = Ids(ingestHist[p])[i]

C4_Witness ==
  \E p \in PipeIds :
    /\ NumApp(p) = 2
    /\ wpc[p][2] = "done"
    /\ Len(ingestHist[p]) = 2
    /\ ingestHist[p][1].command = "Record"
    /\ ingestHist[p][2].command = "Exit"

\* C9 as claimed: once a pipeline has been installed every exit() and flush()
\* returns success, and before any init they return the error
C9_Original ==
  [][(IsCall("Exit") \/ IsCall("Flush")) =>
       (ret'.res = IF LOG_SENDER # 0 THEN "Ok" ELSE "Err")]_vars

\* C9 (amended): exit() and flush() return success exactly when a pipeline is
\* installed and the Dispatcher of the installed pipeline has not ended after
\* processing an Exit; a success has queued the command on its ingest channel
C9_ControlResult ==
  [][(IsCall("Exit") \/ IsCall("Flush")) =>
       /\ ret'.res = IF LOG_SENDER # 0 /\ dpc[LOG_SENDER] # "done"
                       THEN "Ok" ELSE "Err"
       /\ ret'.res = "Ok" =>
            /\ Len(ingest'[LOG_SENDER]) = Len(ingest[LOG_SENDER]) + 1
            /\ Last(ingest'[LOG_SENDER]).command = ret'.op]_vars

C9_Witness ==
  /\ ret.op = "Exit" /\ ret.res = "Err"
  /\ LOG_SENDER # 0
  /\ dpc[LOG_SENDER] = "done"

\* C10: an init call with an empty appender list returns the error and
\* changes neither the global sender, the level nor any task
C10_EmptyAppenders ==
  [][(IsCall("init") /\ ret'.arg = <<>>) =>
       /\ ret'.res = "Err(empty)"
       /\ UNCHANGED <<LOG_SENDER, level, loggerSet, npipes, appenders,
                      recvAlive, ingest, ingestHist, dpc, didx, dmsg, chan,
                      sent, wpc, wmsg, delivered, wgHolders, wgCaller,
                      joinState, max_level, orphaned>>]_vars

C10_Witness ==
  /\ ret.op = "init" /\ ret.arg = <<>> /\ ret.res = "Err(empty)"
  /\ LOG_SENDER # 0
  /\ \E p \in PipeIds : dpc[p] = "recv" /\ ingest[p] # <<>>

\* the bytes of the rotated log files, in the order of their names
RotatedBytes ==
  LET upTo[t \in -1..MaxClock] ==
        IF t = -1 THEN <<>>
        ELSE upTo[t - 1] \o (IF rotated[t] = None THEN <<>> ELSE Unwrap(rotated[t]))
  IN upTo[MaxClock]
\* the record a do_log call was given
CalledWith == SubSeq(logged', Len(logged) + 1, Len(logged'))
IsDoLogCall == logsLeft' # logsLeft

\* C5: a do_log call rotates exactly when the recorded size has reached the
\* threshold; the rotation hands over the mirror as it was before the call,
\* right after it the active file, the cursor, the recorded size and the
\* mirror are empty, and the write that follows makes the record the first
\* bytes of the active file; without a rotation the record is appended
C5_RotationPrefix ==
  /\ [](apc = "write" =>
          /\ file = <<>> /\ cursor = 0
          /\ temp_bytes = 0 /\ temp_data = Some(<<>>))
  /\ [][IsDoLogCall =>
          IF temp_bytes >= max_split_bytes
          THEN /\ apc' \in {"write", "send"}
               /\ apc' = "write" =>
                    /\ pending'.rec = CalledWith
                    /\ IF zip_compress
                       THEN zipChan' = Append(zipChan, Unwrap(temp_data))
                       ELSE RotatedBytes' = RotatedBytes \o Unwrap(temp_data)
          ELSE /\ apc' = "idle"
               /\ file' = file \o CalledWith
               /\ temp_data' = Some(Unwrap(temp_data) \o CalledWith)
               /\ UNCHANGED <<rotated, zipChan>>]_vars
  /\ [][(apc = "write" /\ apc' # "write") =>
          /\ apc' = "idle"
          /\ file' = pending.rec
          /\ temp_data' = Some(pending.rec)
          /\ temp_bytes' = Len(pending.rec)
          /\ UNCHANGED <<rotated, zipChan>>]_vars

C5_Witness ==
  /\ apc = "write"
  /\ pending.rec # <<>>
  /\ pending.pack # <<>>
  /\ max_split_bytes > 0
  /\ Len(pending.pack) > max_split_bytes

\* C6: with compression disabled, between do_log calls the bytes of the
\* rotated files followed by the bytes of the active file are the bytes the
\* temp file held at construction followed by the bytes of every record
C6_ByteConservation ==
  (~zip_compress /\ apc = "idle") => RotatedBytes \o file = file0 \o logged

C6_Witness ==
  /\ ~zip_compress /\ apc = "idle"
  /\ file0 # <<>> /\ file # <<>>
  /\ rotated[0] # None /\ rotated[1] # None
  /\ Len(RotatedBytes) >= 3

\* C7: once the Archive Worker has archived k non-empty buffers there are k
\* archive files, and each buffer is the entry of one of them
C7_ArchivePerSubmission ==
  zpc = "recv" =>
    /\ Cardinality({t \in Times : archives[t] # None}) = Len(zipped)
    /\ \A i \in 1..Len(zipped) : \E t \in Times : archives[t] = Some(zipped[i])

\* C8: the archive channel never holds more than ArchiveCap packs; do_log
\* blocks in the send only on a full channel, and while it is blocked the
\* active file, the cursor and the recorded size are as they were and the
\* buffer is kept; it leaves the send only when the channel has a free slot,
\* putting the buffer in the channel, and then resets and writes the record
C8_Backpressure ==
  /\ [](Len(zipChan) <= ArchiveCap)
  /\ [][(apc # "send" /\ apc' = "send") =>
          /\ Len(zipChan) = ArchiveCap
          /\ pending'.pack = Unwrap(temp_data)
          /\ pending'.rec = CalledWith
          /\ UNCHANGED <<file, cursor, temp_bytes, zipChan>>]_vars
  /\ [][(apc = "send" /\ apc' = "send") =>
          UNCHANGED <<file, cursor, temp_bytes, temp_data, pending>>]_vars
  /\ [][(apc = "send" /\ apc' # "send") =>
          /\ Len(zipChan) < ArchiveCap
          /\ zipChan' = Append(zipChan, pending.pack)
          /\ apc' = "write" /\ file' = <<>> /\ temp_data' = Some(<<>>)
          /\ pending' = pending]_vars
  /\ [][(apc = "write" /\ apc' # "write") => file' = pending.rec]_vars

C8_Witness ==
  /\ apc = "send"
  /\ Len(zipChan) = ArchiveCap
  /\ zpc = "zip"
  /\ file = pending.pack /\ file # <<>>

\* a step of do_log: its call, or its going on after the rotation
IsDoLogStep == logsLeft' # logsLeft \/ apc' # apc

\* C11: do_log of a Flush on a File-Split Appender leaves the active file,
\* the mirror, the recorded size, the rotated files and the archive channel
\* as they were, whatever the recorded size is when the Flush arrives
C11_FlushNoEffect ==
  [][(wmsg[1][1].command = "Flush" /\ IsDoLogStep) =>
       UNCHANGED <<file, temp_data, temp_bytes, rotated, zipChan>>]_vars

\* C12 as claimed: no record that was queued on a pipeline's ingest channel
\* when a later init replaced its sender is passed to do_log of an appender
\* of that pipeline
C12_Original ==
  \A p \in PipeIds, a \in AppIds :
    \A i \in 1..Len(orphaned[p]) :
      orphaned[p][i].command = "Record" =>
        \A j \in 1..Len(delivered[p][a]) :
          Ids(delivered[p][a])[j] # Ids(orphaned[p])[i]

\* the k-th message the first pipeline's ingest channel held when its sender
\* was replaced is a Record; it has been passed to do_log of appender a
OrphanedRecord(k) ==
  IF Len(orphaned[1]) >= k THEN orphaned[1][k].command = "Record" ELSE FALSE
OrphanedDelivered(k, a) ==
  IF Len(orphaned[1]) >= k
  THEN \E j \in 1..Len(delivered[1][a]) :
         Ids(delivered[1][a])[j] = Ids(orphaned[1])[k]
  ELSE FALSE

\* C12 (amended): a message is only ever sent to the ingest channel of the
\* installed sender, so nothing reaches the first pipeline once a second init
\* has replaced it; the records queued on the first pipeline's ingest channel
\* at that moment are not abandoned: unless an Exit was queued with them,
\* the first Dispatcher, which keeps its receiver, fans them out and each is
\* passed to do_log of every appender of the first pipeline
C12_Reinit ==
  /\ [][\A p \in PipeIds :
          ingestHist'[p] # ingestHist[p] => p = LOG_SENDER /\ p = LOG_SENDER']_vars
  /\ \A k \in 1..(MaxCalls - 2) :
       (OrphanedRecord(k) /\ ~HasExit(ingestHist[1]))
         ~> (\A a \in 1..NumApp(1) : OrphanedDelivered(k, a))

C12_Witness ==
  /\ LOG_SENDER = 2
  /\ Len(orphaned[1]) = 2
  /\ orphaned[1][2].command = "Record"
  /\ NumApp(1) = 2
  /\ Len(delivered[1][2]) >= 2
  /\ Ids(delivered[1][2])[Len(delivered[1][2])] = Ids(orphaned[1])[2]

\* C13: an init call that returns an error has started no Dispatcher and no
\* Appender Worker: every task is where it was before the call
C13_FailedInitAborts ==
  [][(IsCall("init") /\ ret'.res # "Ok") =>
       \A p \in PipeIds : dpc'[p] = dpc[p] /\ wpc'[p] = wpc[p]]_vars

\* C14: with a pipeline installed, a log() call whose severity is below the
\* threshold set_level has stored (a greater number than LOGGER.level), or
\* whose record the Filter rejects, submits nothing to any ingest channel
C14_SeverityGate ==
  [][(IsCall("log") /\ LOG_SENDER # 0 /\ (ret'.arg[1] > level \/ ret'.arg[2]))
       => ingestHist' = ingestHist]_vars

\* C15: between do_log calls, from construction on, the mirror holds as many
\* bytes as the active file and as temp_bytes records
C15_MirrorInvariant ==
  apc = "idle" =>
    /\ Len(Unwrap(temp_data)) = Len(file)
    /\ Len(Unwrap(temp_data)) = temp_bytes

\* the text the format gives a message
Formatted(m) == [m EXCEPT !.formated = do_format(m)]

\* C16: every message in fan-out or sent to an appender channel carries the
\* text the Dispatcher gave it when it took it from the ingest channel; the
\* sequences sent to two appenders of a pipeline are prefix-related, the
\* earlier appender of the list being ahead during a fan-out, and they are
\* equal when the Dispatcher is not in a fan-out; each is the ingest
\* channel's sequence, formatted, in order
C16_IdenticalFanout ==
  \A p \in PipeIds :
    /\ dpc[p] = "fanout" => dmsg[p].formated = do_format(dmsg[p])
    /\ \A a \in 1..NumApp(p) :
         /\ \A i \in 1..Len(sent[p][a]) :
              sent[p][a][i] = Formatted(ingestHist[p][i])
         /\ \A b \in a..NumApp(p) :
              /\ IsPrefix(sent[p][b], sent[p][a])
              /\ dpc[p] # "fanout" => sent[p][a] = sent[p][b]

C16_Witness ==
  \E p \in PipeIds :
    /\ NumApp(p) = 2
    /\ dpc[p] = "fanout"
    /\ Len(sent[p][1]) = 3
    /\ Len(sent[p][2]) = 2
    /\ sent[p][1][1].command = "Record"
    /\ sent[p][1][2].command = "Flush"
    /\ sent[p][1][3].command = "Exit"

\* C17: do_log is never invoked with an Exit; a worker that has observed Exit
\* has stopped and no do_log is invoked on its appender afterwards; the
\* Dispatcher, once it has sent Exit to every appender channel, sends nothing
\* more, so that an Exit is the last message of a channel; a Flush taken by a
\* worker is passed to do_log; and nothing queued on the ingest channel behind
\* the first Exit is sent to an appender channel or passed to do_log
C17_ExitIsLast ==
  /\ [](\A p \in PipeIds, a \in AppIds :
          /\ ~HasExit(delivered[p][a])
          /\ ~IsExit(wmsg[p][a])
          /\ \A i \in 1..(Len(sent[p][a]) - 1) : ~IsExit(sent[p][a][i])
          /\ HasExit(ingestHist[p]) =>
               /\ Len(sent[p][a]) <= FirstExit(ingestHist[p])
               /\ Len(delivered[p][a]) < FirstExit(ingestHist[p]))
  /\ [][\A p \in PipeIds, a \in AppIds :
          /\ wpc[p][a] = "done" =>
               /\ wpc'[p][a] = "done"
               /\ delivered'[p][a] = delivered[p][a]
          /\ dpc[p] \in {"break", "done"} =>
               /\ dpc'[p] \in {"break", "done"}
               /\ sent'[p][a] = sent[p][a]
          /\ (Len(chan'[p][a]) < Len(chan[p][a])
                /\ Head(chan[p][a]).command = "Flush") =>
               /\ delivered'[p][a] = Append(delivered[p][a], Head(chan[p][a]))
               /\ wpc'[p][a] = "do_log"]_vars

C17_Witness ==
  \E p \in PipeIds :
    /\ NumApp(p) = 1
    /\ wpc[p][1] = "done"
    /\ dpc[p] = "break"
    /\ Len(delivered[p][1]) = 1
    /\ delivered[p][1][1].command = "Flush"
    /\ Len(ingestHist[p]) = 3
    /\ Len(ingest[p]) = 1
    /\ ingest[p][1].command = "Record"

\* C18: with a positive threshold, when a do_log call has completed the
\* recorded size of the active buffer is less than the threshold plus the
\* length of the record the call was given, whatever the write returned
C18_BoundedOvershoot ==
  /\ [][(IsDoLogCall /\ max_split_bytes > 0 /\ apc' = "idle") =>
          temp_bytes' < max_split_bytes + Len(CalledWith)]_vars
  /\ [][(apc = "write" /\ apc' = "idle" /\ max_split_bytes > 0) =>
          temp_bytes' < max_split_bytes + Len(pending.rec)]_vars

C18_Witness ==
  /\ apc = "idle"
  /\ max_split_bytes = 1
  /\ file0 # <<>>
  /\ logsLeft = MaxLogs - 2
  /\ temp_bytes = 2
  /\ zipChan # <<>>

\* C19: when the join on the wait-group has returned, every rotated buffer
\* the File-Split Appender submitted has been archived: the archive channel
\* is empty and the Archive Worker holds no pack
C19_ArchiveDrain ==
  joinState = "returned" => (zipChan = <<>> /\ zpc = "recv")

\* C20: once a second init has replaced the first pipeline's sender, no
\* message reaches the first pipeline any more; unless an Exit was queued on
\* its ingest channel before the replacement, its Dispatcher and its spawned
\* workers keep their wait-group handles and the join on the wait-group the
\* first init returned never returns, whatever calls follow
C20_OrphanedPipeline ==
  /\ [][LOG_SENDER = 2 => ingestHist'[1] = ingestHist[1]]_vars
  /\ []((LOG_SENDER = 2 /\ ~HasExit(ingestHist[1])) =>
          /\ Disp \in wgHolders[1]
          /\ \A a \in 1..NumApp(1) :
               wpc[1][a] # "none" => Worker(a) \in wgHolders[1]
          /\ wgCaller = 1
          /\ joinState # "returned")
  /\ [][(LOG_SENDER = 2 /\ ~HasExit(ingestHist[1])) =>
          (LOG_SENDER' = 2 /\ ~HasExit(ingestHist'[1]))]_vars

C20_Witness ==
  /\ LOG_SENDER = 2
  /\ ~HasExit(ingestHist[1])
  /\ joinState = "waiting"
  /\ ret.op = "Exit" /\ ret.res = "Ok"
  /\ HasExit(sent[2][1])
  /\ wpc[1][1] = "recv"

====
